---- MODULE Spec2Model ----
(***************************************************************************)
(* A model of Notes.py, the notes manager command line tool: the commands  *)
(* open_file, create, create_project and search_project, the filesystem    *)
(* they read and write, and the external processes (fzf, nvim, $EDITOR,    *)
(* zathura, git) they start.                                               *)
(*                                                                         *)
(* Strings are sequences of tokens.  "/", "." , "#", " " and "~" are the   *)
(* characters of that name, one letter tokens are letters, and every       *)
(* longer token is a fixed word without "/" or ".".  No file name of the   *)
(* universe is a proper suffix of a word, so str.endswith, str.replace and *)
(* os.path.splitext computed on tokens agree with Python's on characters.  *)
(***************************************************************************)
EXTENDS Integers, Sequences, FiniteSets, TLC

VARIABLES
    fs,          \* the filesystem: path -> [kind, content]
    reversed,    \* the order in which the filesystem lists a directory
    pc,          \* where the running command is: idle, a blocked call, done
    cmd,         \* the command that runs, with its arguments
    site,        \* the call site fzf_select returns to
    directory,   \* the local `directory` of the running command
    files,       \* the local `files` handed to fzf_select / fzf_select_project
    target,      \* the path the blocking child process was started on
    selected_file, \* fzf_select's local selected_file (line 95)
    returned,    \* what the caller of fzf_select got back (lines 45, 255, 264)
    out,         \* the console messages of the running command, in order
    launched,    \* the subprocesses the running command started, in order
    viewers,     \* the detached viewers that are still alive
    runs         \* the number of commands started in this session

vars == <<fs, reversed, pc, cmd, site, directory, files, target,
          selected_file, returned, out, launched, viewers, runs>>

\* The number of commands of one session.
MaxCommands == 2

----------------------------------------------------------------------------
(* Strings *)

Max(S) == CHOOSE x \in S : \A y \in S : y <= x

\* str.rfind(c), 1-based; 0 when c does not occur
rfind(s, c) ==
    LET I == {i \in 1..Len(s) : s[i] = c}
    IN  IF I = {} THEN 0 ELSE Max(I)

startswith(s, pre) ==
    Len(pre) <= Len(s) /\ SubSeq(s, 1, Len(pre)) = pre

endswith(s, suf) ==
    Len(suf) <= Len(s) /\ SubSeq(s, Len(s) - Len(suf) + 1, Len(s)) = suf

\* str.replace(old, ""): every occurrence of old removed, left to right
RECURSIVE remove(_, _)
remove(s, old) ==
    IF s = <<>> \/ old = <<>> THEN s
    ELSE IF startswith(s, old)
         THEN remove(SubSeq(s, Len(old) + 1, Len(s)), old)
         ELSE <<Head(s)>> \o remove(Tail(s), old)

LowerTok(t) ==
    CASE t = "PDF" -> "pdf"
      [] t = "MD" -> "md"
      [] t = "README" -> "readme"
      [] t = "GoogleDrive" -> "googledrive"
      [] t = "Projects" -> "projects"
      [] OTHER -> t

\* str.lower()
lower(s) == [i \in 1..Len(s) |-> LowerTok(s[i])]

----------------------------------------------------------------------------
(* os.path *)

HOME == <<"/", "h">>

\* os.path.expanduser
expanduser(p) ==
    IF p /= <<>> /\ p[1] = "~" /\ (Len(p) = 1 \/ p[2] = "/")
    THEN HOME \o Tail(p)
    ELSE p

\* os.path.join(a, b)
join(a, b) ==
    IF b /= <<>> /\ b[1] = "/" THEN b
    ELSE IF a = <<>> \/ a[Len(a)] = "/" THEN a \o b
    ELSE a \o <<"/">> \o b

\* os.path.splitext(p), as <<root, ext>>
splitext(p) ==
    LET sepIndex == rfind(p, "/")
        dotIndex == rfind(p, ".")
    IN  IF dotIndex > sepIndex
           /\ \E k \in (sepIndex + 1)..(dotIndex - 1) : p[k] /= "."
        THEN <<SubSeq(p, 1, dotIndex - 1), SubSeq(p, dotIndex, Len(p))>>
        ELSE <<p, <<>>>>

\* the directory a path lies in, and its name there
dirname(p) == SubSeq(p, 1, rfind(p, "/") - 1)
basename(p) == SubSeq(p, rfind(p, "/") + 1, Len(p))

----------------------------------------------------------------------------
(* The filesystem *)

Dir == [kind |-> "dir", content |-> <<>>]
File(c) == [kind |-> "file", content |-> c]

exists(f, p) == p \in DOMAIN f
isdir(f, p) == p \in DOMAIN f /\ f[p].kind = "dir"
isfile(f, p) == p \in DOMAIN f /\ f[p].kind = "file"

\* the order of names the filesystem lists a directory in
Alphabet == <<".", "a", "b", "c", "d", "e", "p", "q", "x", "md", "pdf", "PDF",
              "epub", "xyz", "py", "git", "hid", "notes", "reference", "src",
              "app", "static", "templates", "data", "docs", "README",
              "Projects", "Uni", "GoogleDrive", "h", "nodir", "/", "#", " ",
              "~", "edited">>

TokRank(t) == CHOOSE i \in 1..Len(Alphabet) : Alphabet[i] = t

RECURSIVE NameLess(_, _)
NameLess(a, b) ==
    IF a = <<>> THEN b /= <<>>
    ELSE IF b = <<>> THEN FALSE
    ELSE IF a[1] = b[1] THEN NameLess(Tail(a), Tail(b))
    ELSE TokRank(a[1]) < TokRank(b[1])

RECURSIVE Sorted(_)
Sorted(S) ==
    IF S = {} THEN <<>>
    ELSE LET m == CHOOSE x \in S : \A y \in S \ {x} : NameLess(x, y)
         IN  <<m>> \o Sorted(S \ {m})

Reverse(s) == [i \in 1..Len(s) |-> s[Len(s) + 1 - i]]

\* the names in directory d, in the filesystem's order
listdir(f, rev, d) ==
    LET names == {basename(p) : p \in {q \in DOMAIN f : dirname(q) = d /\ q /= d}}
    IN  IF rev THEN Reverse(Sorted(names)) ELSE Sorted(names)

\* os.walk(top), top-down: a sequence of [root, dirs, files]; nothing
\* when top is no directory (os.walk ignores the error of listing it)
RECURSIVE walk(_, _, _)
RECURSIVE walkEach(_, _, _, _)
walk(f, rev, top) ==
    IF ~isdir(f, top) THEN <<>>
    ELSE LET names == listdir(f, rev, top)
             IsD(n) == isdir(f, join(top, n))
             NotD(n) == ~isdir(f, join(top, n))
             dirs == SelectSeq(names, IsD)
             nondirs == SelectSeq(names, NotD)
         IN  <<[root |-> top, dirs |-> dirs, files |-> nondirs]>>
             \o walkEach(f, rev, top, dirs)
walkEach(f, rev, top, dirs) ==
    IF dirs = <<>> THEN <<>>
    ELSE walk(f, rev, join(top, Head(dirs))) \o walkEach(f, rev, top, Tail(dirs))

RECURSIVE Concat(_)
Concat(ss) == IF ss = <<>> THEN <<>> ELSE Head(ss) \o Concat(Tail(ss))

\* os.makedirs(p): p and its missing ancestors become directories; an error
\* when p exists or an ancestor is a file
makedirs(f, p) ==
    LET cuts == {i \in 2..Len(p) : p[i] = "/"}
        ancestors == {SubSeq(p, 1, i - 1) : i \in cuts}
        new == (ancestors \cup {p}) \ DOMAIN f
    IN  IF exists(f, p) \/ \E a \in ancestors : isfile(f, a)
        THEN [ok |-> FALSE, fs |-> f]
        ELSE [ok |-> TRUE, fs |-> [q \in DOMAIN f \cup new |->
                                     IF q \in DOMAIN f THEN f[q] ELSE Dir]]

\* open(p, "w") followed by write(c): an error when the directory of p is
\* missing or p is a directory
write_file(f, p, c) ==
    IF ~isdir(f, dirname(p)) \/ isdir(f, p)
    THEN [ok |-> FALSE, fs |-> f]
    ELSE [ok |-> TRUE, fs |-> [q \in DOMAIN f \cup {p} |->
                                 IF q = p THEN File(c) ELSE f[q]]]

----------------------------------------------------------------------------
(* get_file_list: the directory scanner *)

allowed_ext_exact(filename, allowed_file_types) ==
    splitext(filename)[2] \in allowed_file_types

\* lines 69-70: the extension of filename, lower-cased, is an allowed one
allowed_ext(filename, allowed_file_types) ==
    lower(splitext(filename)[2]) \in allowed_file_types

get_file_list(f, rev, dir, allowed_file_types) ==
    LET w == walk(f, rev, dir)
        Keep(n) == allowed_ext(n, allowed_file_types)
        OfRoot(i) == LET fl == SelectSeq(w[i].files, Keep)
                     IN  [k \in 1..Len(fl) |-> join(w[i].root, fl[k])]
    IN  Concat([i \in 1..Len(w) |-> OfRoot(i)])

----------------------------------------------------------------------------
(* The filesystems a session starts from *)

GD == HOME \o <<"/", "GoogleDrive">>
PR == GD \o <<"/", "Projects">>

Edited == <<"edited">>

\* nothing but the home directory: ~/GoogleDrive does not exist
EmptyFs == (HOME :> Dir)

\* ~/GoogleDrive/Projects exists and is empty
BareFs == (HOME :> Dir) @@ (GD :> Dir) @@ (PR :> Dir)

\* notes, documents and one project
FullFs ==
    BareFs
    @@ (join(GD, <<"a", ".", "md">>) :> File(Edited))
    @@ (join(GD, <<"b", "a", ".", "md">>) :> File(<<>>))
    @@ (join(GD, <<"b", ".", "PDF">>) :> File(<<>>))
    @@ (join(GD, <<"c", ".", "epub">>) :> File(<<>>))
    @@ (join(GD, <<"x", ".", "md">>) :> Dir)
    @@ (join(GD, <<"x", ".", "md", "/", ".", "md">>) :> File(<<>>))
    @@ (join(GD, <<"Uni">>) :> Dir)
    @@ (join(GD, <<"Uni", "/", "e", ".", "pdf">>) :> File(<<>>))
    @@ (join(PR, <<".", "hid">>) :> Dir)
    @@ (join(PR, <<"p">>) :> Dir)
    @@ (join(PR, <<"p", "/", "a", ".", "md">>) :> File(<<>>))
    @@ (join(PR, <<"p", "/", "d", ".", "xyz">>) :> File(<<>>))
    @@ (join(PR, <<"p", "/", "notes">>) :> Dir)
    @@ (join(PR, <<"p", "/", "notes", "/", "e", ".", "pdf">>) :> File(<<>>))

Seeds == {EmptyFs, BareFs, FullFs}

----------------------------------------------------------------------------
(* Subprocesses *)

None == <<>>

\* a started subprocess: the program, the path it was started on, how it was
\* started (run, check_output, Popen), the lines written to its standard
\* input, whether the tool waited for its exit, whether the tool inspected
\* its exit status, and the exit status and output the tool then has
Launch(prog, arg, mode, stdin) ==
    [prog |-> prog, arg |-> arg, mode |-> mode, stdin |-> stdin,
     waited |-> FALSE, checked |-> FALSE, status |-> -1, stdout |-> None]

\* the last subprocess has exited with status and output, and the tool has
\* seen it
Waited(l, checked, status, stdout) ==
    [l EXCEPT ![Len(l)].waited = TRUE, ![Len(l)].checked = checked,
              ![Len(l)].status = status, ![Len(l)].stdout = stdout]

NoViewer == [prog |-> "none", mode |-> "none"]

viewer_md_detached(file_extension) ==
    IF file_extension = <<".", "md">> THEN [prog |-> "nvim", mode |-> "Popen"]
    ELSE IF file_extension = <<".", "pdf">>
    THEN [prog |-> "zathura", mode |-> "Popen"]
    ELSE NoViewer

\* lines 337-344: the dispatch table of open_file_with_appropriate_viewer
viewer(file_extension) ==
    IF file_extension = <<".", "md">> THEN [prog |-> "nvim", mode |-> "run"]
    ELSE IF file_extension = <<".", "pdf">>
    THEN [prog |-> "zathura", mode |-> "Popen"]
    ELSE NoViewer

\* lines 51-61: the dispatch table written out in open_file
open_file_viewer(file_extension) ==
    IF file_extension = <<".", "md">> THEN [prog |-> "nvim", mode |-> "run"]
    ELSE IF file_extension = <<".", "pdf">>
    THEN [prog |-> "zathura", mode |-> "Popen"]
    ELSE IF file_extension = <<".", "epub">>
    THEN [prog |-> "ebook-viewer", mode |-> "run"]
    ELSE NoViewer

\* lines 78-80: the labels shown to the user
file_names(fl) ==
    [i \in 1..Len(fl) |->
        remove(fl[i], expanduser(<<"~", "/", "GoogleDrive", "/">>))]

\* lines 95-97: next(file for file in files if file.endswith(name));
\* 0 when there is none (StopIteration)
first_match(fl, selected_file_name) ==
    LET I == {i \in 1..Len(fl) : endswith(fl[i], selected_file_name)}
    IN  IF I = {} THEN 0 ELSE CHOOSE i \in I : \A j \in I : i <= j

\* lines 95-102: what fzf_select hands back for the file it resolved; the
\* function ends without a return statement
fzf_select_result(file) == None

----------------------------------------------------------------------------
(* search_project's listings *)

\* lines 276-289; called on a directory that exists
get_first_level_folders(f, rev, dir) ==
    LET Keep(n) == /\ isdir(f, join(dir, n))
                   /\ ~startswith(n, <<".">>)
                   /\ join(dir, n) /=
                        expanduser(<<"~", "/", "GoogleDrive", "/", "Projects">>)
    IN  SelectSeq(listdir(f, rev, dir), Keep)

\* lines 292-303: the third component of os.walk's triples is the names that
\* are not directories
get_folders_and_files(f, rev, dir) ==
    LET w == walk(f, rev, dir)
        Paths(i) == [k \in 1..Len(w[i].files) |-> join(w[i].root, w[i].files[k])]
        all == Concat([i \in 1..Len(w) |-> Paths(i)])
        IsFolder(full_path) == isdir(f, full_path) /\ ~startswith(full_path, <<".">>)
        IsFile(full_path) == ~IsFolder(full_path) /\ isfile(f, full_path)
    IN  [folders |-> SelectSeq(all, IsFolder), files |-> SelectSeq(all, IsFile)]

\* lines 306-313
get_files_in_folder(f, rev, folder) ==
    LET IsF(n) == isfile(f, join(folder, n))
        names == SelectSeq(listdir(f, rev, folder), IsF)
    IN  [k \in 1..Len(names) |-> join(folder, names[k])]

----------------------------------------------------------------------------
(* The running command: k is [pc, site, files, target, selected_file,      *)
(* returned, out, launched, viewers, run], the part of the state a         *)
(* command's steps change                                                  *)

no_files_unchecked(fl) == FALSE

\* lines 41, 229, 243, 263: `if not files`
no_files(fl) == fl = <<>>

\* the command ends after printing msgs
Done(k, msgs) == [k EXCEPT !.pc = "done", !.out = k.out \o msgs]

\* lines 75-92: fzf_select(fl) starts fzf on the labels and blocks
StartSelect(k, fl, st) ==
    [k EXCEPT !.pc = "fzf_select", !.site = st, !.files = fl,
              !.launched = Append(k.launched,
                  Launch("fzf", None, "check_output", file_names(fl)))]

\* the dispatch of file_path by table v; the result is blocked at
\* blocked_pc when the viewer runs in the foreground
Dispatch(k, file_path, v, blocked_pc) ==
    IF v.mode = "run"
    THEN [k EXCEPT !.pc = blocked_pc, !.target = file_path,
                   !.launched = Append(k.launched,
                       Launch(v.prog, file_path, "run", <<>>))]
    ELSE IF v.mode = "Popen"
    THEN [k EXCEPT !.launched = Append(k.launched,
                       Launch(v.prog, file_path, "Popen", <<>>)),
                   !.viewers = k.viewers \cup
                       {[prog |-> v.prog, path |-> file_path, run |-> k.run]}]
    ELSE [k EXCEPT !.out = Append(k.out, "Unsupported file type.")]

\* lines 334-344
open_file_with_appropriate_viewer(k, file_path, blocked_pc) ==
    Dispatch(k, file_path, viewer(splitext(file_path)[2]), blocked_pc)

\* a dispatch that is the last statement of its command
LastDispatch(k, file_path, v, blocked_pc) ==
    LET k1 == Dispatch(k, file_path, v, blocked_pc)
    IN  IF k1.pc = blocked_pc THEN k1 ELSE Done(k1, <<>>)

\* the caller of fzf_select goes on with the value r it got back:
\* open_file lines 46-61, search_project lines 256-273
Return(f, rev, k0, r) ==
    LET k == [k0 EXCEPT !.returned = r] IN
    IF k.site = "open_file"
    THEN IF r = None
         THEN Done(k, <<"No file selected.">>)
         ELSE LastDispatch(k, r, open_file_viewer(splitext(r)[2]),
                           "open_file_run")
    ELSE IF k.site = "search_item"
    THEN IF r = None
         THEN Done(k, <<"No item selected.">>)
         ELSE IF isdir(f, r)
         THEN LET files_in_folder == get_files_in_folder(f, rev, r)
              IN  IF ~no_files(files_in_folder)
                  THEN StartSelect(k, files_in_folder, "search_file")
                  ELSE Done(k, <<"No files found in the selected folder.">>)
         ELSE LastDispatch(k, r, viewer(splitext(r)[2]), "viewer_direct")
    ELSE IF r /= None
         THEN LastDispatch(k, r, viewer(splitext(r)[2]), "viewer_direct")
         ELSE Done(k, <<"No file selected in the folder.">>)

\* lines 88-102: fzf has exited; choice 0 is a non-zero exit status (the
\* user cancelled), choice i > 0 is exit status 0 with label i printed
fzf_select_exit(f, rev, k, choice) ==
    LET selected_file_name == file_names(k.files)[choice]
        k0 == [k EXCEPT !.launched = Waited(k.launched, TRUE, 130, None)]
        k1 == [k EXCEPT !.launched =
                 Waited(k.launched, TRUE, 0, selected_file_name)]
        i == first_match(k.files, selected_file_name)
        k2 == open_file_with_appropriate_viewer(
                  [k1 EXCEPT !.selected_file = k.files[i]], k.files[i], "viewer")
    IN  IF choice = 0 THEN Return(f, rev, k0, None)
        ELSE IF i = 0 THEN Done(k1, <<"Traceback">>)
        ELSE IF k2.pc = "viewer" THEN k2
        ELSE Return(f, rev, k2, fzf_select_result(k2.selected_file))

----------------------------------------------------------------------------
(* create: the note creation command *)

note_path_of(dir, note_name) == join(dir, note_name \o <<".", "md">>)

create_fs_overwrite(f, dir, note_name) ==
    LET note_path == note_path_of(dir, note_name)
        w == write_file(f, note_path, <<"#", " ">> \o note_name)
    IN  IF ~w.ok THEN [status |-> "raise", fs |-> f]
        ELSE [status |-> "created", fs |-> w.fs]

\* lines 119-127: the check for an existing note, and the write of the new one
create_fs(f, dir, note_name) ==
    LET note_path == note_path_of(dir, note_name)
        w == write_file(f, note_path, <<"#", " ">> \o note_name)
    IN  IF exists(f, note_path) THEN [status |-> "exists", fs |-> f]
        ELSE IF ~w.ok THEN [status |-> "raise", fs |-> f]
        ELSE [status |-> "created", fs |-> w.fs]

----------------------------------------------------------------------------
(* create_project: the project scaffolding command *)

\* lines 155-166, in the order of the dictionaries; every item of the lists
\* is a string, and the value of "README.md" is the empty string
project_templates ==
    [default |-> << [folder |-> <<"notes">>,
                     items |-> << <<"notes", ".", "md">> >>],
                    [folder |-> <<"notes", "/", "reference">>,
                     items |-> << >>] >>,
     webapp  |-> << [folder |-> <<"src">>,
                     items |-> << <<"src">>, <<"app", ".", "py">>,
                                  <<"static">>, <<"templates">> >>],
                    [folder |-> <<"data">>, items |-> << <<"data">> >>],
                    [folder |-> <<"docs">>, items |-> << <<"docs">> >>],
                    [folder |-> <<"README", ".", "md">>, items |-> << >>] >>]

RECURSIVE make_items_as_folders(_, _, _)
make_items_as_folders(f, folder_path, items) ==
    IF items = <<>> THEN [ok |-> TRUE, fs |-> f]
    ELSE LET m == makedirs(f, join(folder_path, Head(items)))
         IN  IF ~m.ok THEN m
             ELSE make_items_as_folders(m.fs, folder_path, Tail(items))

\* lines 192-197: a string item becomes an empty file
RECURSIVE make_items(_, _, _)
make_items(f, folder_path, items) ==
    IF items = <<>> THEN [ok |-> TRUE, fs |-> f]
    ELSE LET w == write_file(f, join(folder_path, Head(items)), <<>>)
         IN  IF ~w.ok THEN w
             ELSE make_items(w.fs, folder_path, Tail(items))

\* lines 189-197
RECURSIVE make_folders(_, _, _)
make_folders(f, project_path, template_files) ==
    IF template_files = <<>> THEN [ok |-> TRUE, fs |-> f]
    ELSE LET folder_path == join(project_path, Head(template_files).folder)
             m == makedirs(f, folder_path)
             w == make_items(m.fs, folder_path, Head(template_files).items)
         IN  IF ~m.ok THEN m
             ELSE IF ~w.ok THEN w
             ELSE make_folders(w.fs, project_path, Tail(template_files))

create_project_fs_root_first(f, project_path, template) ==
    LET root == makedirs(f, project_path)
        made == make_folders(root.fs, project_path, project_templates[template])
    IN  IF exists(f, project_path) THEN [status |-> "exists", fs |-> f]
        ELSE IF ~root.ok THEN [status |-> "raise", fs |-> f]
        ELSE IF template \notin DOMAIN project_templates
        THEN [status |-> "unknown", fs |-> root.fs]
        ELSE [status |-> IF made.ok THEN "created" ELSE "raise", fs |-> made.fs]

\* lines 174-197: the two checks, then the project folder and the template
create_project_fs(f, project_path, template) ==
    LET root == makedirs(f, project_path)
        made == make_folders(root.fs, project_path, project_templates[template])
    IN  IF exists(f, project_path) THEN [status |-> "exists", fs |-> f]
        ELSE IF template \notin DOMAIN project_templates
        THEN [status |-> "unknown", fs |-> f]
        ELSE IF ~root.ok THEN [status |-> "raise", fs |-> f]
        ELSE [status |-> IF made.ok THEN "created" ELSE "raise", fs |-> made.fs]

----------------------------------------------------------------------------
(* The arguments the commands are run with *)

DriveOpt == <<"~", "/", "GoogleDrive">>
ProjectsOpt == <<"~", "/", "GoogleDrive", "/", "Projects">>
MissingOpt == <<"~", "/", "nodir">>

OpenDirs == {DriveOpt, MissingOpt}
NoteNames == {<<"a">>, <<"b">>}
NoteDirs == {DriveOpt, MissingOpt}
ProjectNames == {<<"p">>, <<"q">>}
Templates == {"default", "webapp", "nonexistent"}
ProjectDirs == {ProjectsOpt}
SearchDirs == {ProjectsOpt, MissingOpt}

----------------------------------------------------------------------------
(* The state machine *)

Init ==
    /\ fs \in Seeds
    /\ reversed \in BOOLEAN
    /\ pc = "idle"
    /\ cmd = [name |-> "none"]
    /\ site = "none"
    /\ directory = None
    /\ files = <<>>
    /\ target = None
    /\ selected_file = None
    /\ returned = None
    /\ out = <<>>
    /\ launched = <<>>
    /\ viewers = {}
    /\ runs = 0

\* the running command, and a command that starts
Cur == [pc |-> pc, site |-> site, files |-> files, target |-> target,
        selected_file |-> selected_file, returned |-> returned,
        out |-> out, launched |-> launched, viewers |-> viewers, run |-> runs]

Fresh == [pc |-> "idle", site |-> "none", files |-> <<>>, target |-> None,
          selected_file |-> None, returned |-> None,
          out |-> <<>>, launched |-> <<>>, viewers |-> viewers,
          run |-> runs + 1]

Set(k) ==
    /\ pc' = k.pc
    /\ site' = k.site
    /\ files' = k.files
    /\ target' = k.target
    /\ selected_file' = k.selected_file
    /\ returned' = k.returned
    /\ out' = k.out
    /\ launched' = k.launched
    /\ viewers' = k.viewers

CanStart == pc \in {"idle", "done"} /\ runs < MaxCommands

\* lines 27-48: open_file up to the call of fzf_select; the token "Uni" is
\* the folder name of line 38
open_file(dirOpt, pdf_only, uni) ==
    /\ CanStart
    /\ LET allowed_file_types ==
               IF pdf_only THEN {<<".", "pdf">>}
               ELSE {<<".", "pdf">>, <<".", "epub">>, <<".", "md">>}
           d == IF uni THEN join(expanduser(dirOpt), <<"Uni">>)
                ELSE expanduser(dirOpt)
           fl == get_file_list(fs, reversed, d, allowed_file_types)
       IN  /\ directory' = d
           /\ Set(IF no_files(fl) THEN Done(Fresh, <<"No files found.">>)
                  ELSE StartSelect(Fresh, fl, "open_file"))
    /\ cmd' = [name |-> "open_file", directory |-> dirOpt,
               pdf_only |-> pdf_only, uni |-> uni]
    /\ runs' = runs + 1
    /\ UNCHANGED <<fs, reversed>>

\* fzf, started by fzf_select, exits
FzfSelectExit ==
    /\ pc = "fzf_select"
    /\ \E choice \in 0..Len(files) :
          Set(fzf_select_exit(fs, reversed, Cur, choice))
    /\ UNCHANGED <<fs, reversed, cmd, directory, runs>>

\* what an editor may leave in the file it was started on
EditorWrites(f, path) ==
    {f} \cup
    IF isfile(f, path) /\ ~endswith(f[path].content, Edited)
    THEN {[f EXCEPT ![path].content = @ \o Edited]}
    ELSE {}

\* the child the command waits for (nvim, $EDITOR, ebook-viewer) exits:
\* line 339 called from line 100, line 131, line 339 called from lines 266
\* and 273, lines 53 and 59
BlockingExit ==
    /\ pc \in {"viewer", "editor", "viewer_direct", "open_file_run"}
    /\ \E status \in {0, 1} :
       \E f \in EditorWrites(fs, target) :
          /\ fs' = f
          /\ LET k1 == [Cur EXCEPT !.launched =
                          Waited(launched, pc = "editor", status, None)]
             IN  Set(IF pc = "viewer"
                     THEN Return(f, reversed, k1,
                                 fzf_select_result(selected_file))
                     ELSE IF pc = "editor" /\ status /= 0
                     THEN Done(k1, <<"Error opening the note with the text editor">>)
                     ELSE Done(k1, <<>>))
    /\ UNCHANGED <<reversed, cmd, directory, runs>>

\* lines 113-131: create up to the call of the editor
create(note_name, dirOpt) ==
    /\ CanStart
    /\ LET d == expanduser(dirOpt)
           r == create_fs(fs, d, note_name)
       IN  /\ directory' = d
           /\ fs' = r.fs
           /\ Set(IF r.status = "exists"
                  THEN Done(Fresh, <<"Error: Note already exists.">>)
                  ELSE IF r.status = "raise"
                  THEN Done(Fresh, <<"Traceback">>)
                  ELSE [Fresh EXCEPT
                          !.pc = "editor",
                          !.target = note_path_of(d, note_name),
                          !.out = <<"Success: Note created.">>,
                          !.launched = <<Launch("EDITOR",
                              note_path_of(d, note_name), "run", <<>>)>>])
    /\ cmd' = [name |-> "create", note_name |-> note_name, directory |-> dirOpt]
    /\ runs' = runs + 1
    /\ UNCHANGED reversed

\* lines 151-205: create_project up to the call of git
create_project(project_name, template, git, dirOpt) ==
    /\ CanStart
    /\ LET d == expanduser(dirOpt)
           project_path == join(d, project_name)
           r == create_project_fs(fs, project_path, template)
           ok == [Fresh EXCEPT !.out = <<"Success: Project created.">>]
       IN  /\ directory' = d
           /\ fs' = r.fs
           /\ Set(IF r.status = "exists"
                  THEN Done(Fresh, <<"Error: Project already exists.">>)
                  ELSE IF r.status = "unknown"
                  THEN Done(Fresh, <<"Error: Template not found.">>)
                  ELSE IF r.status = "raise"
                  THEN Done(Fresh, <<"Traceback">>)
                  ELSE IF git
                  THEN [ok EXCEPT !.pc = "git", !.target = project_path,
                                  !.launched = <<Launch("git", project_path,
                                                        "run", <<>>)>>]
                  ELSE Done(ok, <<>>))
    /\ cmd' = [name |-> "create_project", project_name |-> project_name,
               template |-> template, git |-> git, directory |-> dirOpt]
    /\ runs' = runs + 1
    /\ UNCHANGED reversed

\* lines 208-214: git init exits
GitExit ==
    /\ pc = "git"
    /\ \E status \in {0, 1} :
          LET k1 == [Cur EXCEPT !.launched =
                       Waited(launched, TRUE, status, None)]
              dotgit == join(target, <<".", "git">>)
          IN  IF status = 0
              THEN /\ fs' = IF exists(fs, dotgit) THEN fs
                            ELSE makedirs(fs, dotgit).fs
                   /\ Set(Done(k1, <<"Success: Git repository initialized.">>))
              ELSE /\ fs' = fs
                   /\ Set(Done(k1,
                          <<"Error: Failed to initialize Git repository.">>))
    /\ UNCHANGED <<reversed, cmd, directory, runs>>

\* lines 223-235: search_project up to the call of fzf_select_project
search_project(dirOpt) ==
    /\ CanStart
    /\ LET d == expanduser(dirOpt)
           first_level_folders == get_first_level_folders(fs, reversed, d)
       IN  /\ directory' = d
           /\ Set(IF ~isdir(fs, d) THEN Done(Fresh, <<"Traceback">>)
                  ELSE IF no_files(first_level_folders)
                  THEN Done(Fresh, <<"No first-level folders found.">>)
                  ELSE [Fresh EXCEPT
                          !.pc = "fzf_project",
                          !.files = first_level_folders,
                          !.launched = <<Launch("fzf", None, "Popen",
                                                first_level_folders)>>])
    /\ cmd' = [name |-> "search_project", directory |-> dirOpt]
    /\ runs' = runs + 1
    /\ UNCHANGED <<fs, reversed>>

\* lines 316-331 and 236-255: fzf, started by fzf_select_project, exits with
\* a folder name or with nothing on its output
FzfProjectExit ==
    /\ pc = "fzf_project"
    /\ \E choice \in 0..Len(files) :
          LET selected_folder_name == IF choice = 0 THEN None ELSE files[choice]
              k1 == [Cur EXCEPT !.launched =
                       Waited(launched, FALSE, IF choice = 0 THEN 130 ELSE 0,
                              selected_folder_name)]
              selected_folder == join(directory, selected_folder_name)
              ff == get_folders_and_files(fs, reversed, selected_folder)
              k2 == [k1 EXCEPT !.out =
                       (IF ff.folders /= <<>>
                        THEN <<"Subfolders in the selected folder:">> ELSE <<>>)
                       \o (IF ff.files /= <<>>
                           THEN <<"Files in the selected folder:">> ELSE <<>>)]
          IN  Set(IF selected_folder_name = None THEN Done(k1, <<>>)
                  ELSE IF no_files(ff.folders \o ff.files)
                  THEN Done(k1, <<"No files or subfolders found.">>)
                  ELSE StartSelect(k2, ff.folders \o ff.files, "search_item"))
    /\ UNCHANGED <<fs, reversed, cmd, directory, runs>>

\* a detached viewer is closed by its user
ViewerExit ==
    /\ \E v \in viewers : viewers' = viewers \ {v}
    /\ UNCHANGED <<fs, reversed, pc, cmd, site, directory, files, target,
                   selected_file, returned, out, launched, runs>>

Next ==
    \/ \E d \in OpenDirs, pdf_only \in BOOLEAN, uni \in BOOLEAN :
          open_file(d, pdf_only, uni)
    \/ FzfSelectExit
    \/ BlockingExit
    \/ \E n \in NoteNames, d \in NoteDirs : create(n, d)
    \/ \E n \in ProjectNames, t \in Templates, g \in BOOLEAN, d \in ProjectDirs :
          create_project(n, t, g, d)
    \/ GitExit
    \/ \E d \in SearchDirs : search_project(d)
    \/ FzfProjectExit
    \/ ViewerExit

Spec == Init /\ [][Next]_vars

----------------------------------------------------------------------------
(* The scanner alone, on every directory and every set of extensions *)

ScanDirs == {HOME, GD, PR, join(PR, <<"p">>), join(GD, <<"x", ".", "md">>),
             join(GD, <<"a", ".", "md">>), join(HOME, <<"nodir">>)}

ScanExts == {<<".", "md">>, <<".", "pdf">>, <<".", "PDF">>, <<".", "epub">>,
             <<>>}

InitScan ==
    /\ fs \in Seeds
    /\ reversed \in BOOLEAN
    /\ pc = "idle"
    /\ \E E \in SUBSET ScanExts : cmd = [name |-> "scan", allowed |-> E]
    /\ site = "none"
    /\ directory \in ScanDirs
    /\ files = <<>>
    /\ target = None
    /\ selected_file = None
    /\ returned = None
    /\ out = <<>>
    /\ launched = <<>>
    /\ viewers = {}
    /\ runs = 0

\* lines 64-72
Scan ==
    /\ pc = "idle"
    /\ files' = get_file_list(fs, reversed, directory, cmd.allowed)
    /\ pc' = "done"
    /\ UNCHANGED <<fs, reversed, cmd, site, directory, target, selected_file,
                   returned, out, launched, viewers, runs>>

NextScan == Scan

SpecScan == InitScan /\ [][NextScan]_vars

----------------------------------------------------------------------------
(* Properties *)

Range(q) == {q[i] : i \in 1..Len(q)}

ExtOf(path) == splitext(path)[2]

\* the step is the start of command `name`
Starts(name) == runs' = runs + 1 /\ cmd'.name = name

AlreadyExistsNote == <<"Error: Note already exists.">>
AlreadyExistsProject == <<"Error: Project already exists.">>
UnknownTemplate == <<"Error: Template not found.">>

\* C1: create(n, d) on an existing directory d without d/n.md writes d/n.md
\* with the content "# n" and reports success; create(n, d) when d/n.md
\* exists reports that the note already exists, starts nothing and leaves
\* the whole filesystem, the content of d/n.md included, as it was.
C1_CreateNote ==
    [][Starts("create") =>
         LET n == cmd'.note_name
             d == expanduser(cmd'.directory)
             path == d \o <<"/">> \o n \o <<".", "md">>
         IN  /\ (isdir(fs, d) /\ ~exists(fs, path)) =>
                   /\ isfile(fs', path)
                   /\ fs'[path].content = <<"#", " ">> \o n
                   /\ DOMAIN fs' = DOMAIN fs \cup {path}
                   /\ \A q \in DOMAIN fs : fs'[q] = fs[q]
                   /\ out' = <<"Success: Note created.">>
             /\ exists(fs, path) =>
                   /\ out' = AlreadyExistsNote
                   /\ fs' = fs
                   /\ launched' = <<>>
                   /\ pc' = "done"]_vars

\* a second create of note b, after the first one's editor changed the file
C1_Witness ==
    /\ pc = "done"
    /\ cmd.name = "create"
    /\ cmd.note_name = <<"b">>
    /\ out = AlreadyExistsNote
    /\ isfile(fs, join(GD, <<"b", ".", "md">>))
    /\ fs[join(GD, <<"b", ".", "md">>)].content = <<"#", " ", "b">> \o Edited

\* C2: create_project(p, "default", git off, d) without d/p makes
\* d/p/notes/notes.md an empty file and d/p/notes/reference an empty
\* directory and reports success; with d/p it reports that the project
\* already exists and changes nothing in the filesystem.
C2_CreateProject ==
    [][(Starts("create_project") /\ cmd'.template = "default" /\ ~cmd'.git) =>
         LET root == expanduser(cmd'.directory) \o <<"/">> \o cmd'.project_name
             notes_md == root \o <<"/", "notes", "/", "notes", ".", "md">>
             reference == root \o <<"/", "notes", "/", "reference">>
         IN  /\ ~exists(fs, root) =>
                   /\ isfile(fs', notes_md)
                   /\ fs'[notes_md].content = <<>>
                   /\ isdir(fs', reference)
                   /\ ~\E q \in DOMAIN fs' :
                          q /= reference /\ startswith(q, reference \o <<"/">>)
                   /\ \A q \in DOMAIN fs : q \in DOMAIN fs' /\ fs'[q] = fs[q]
                   /\ out' = <<"Success: Project created.">>
                   /\ pc' = "done"
             /\ exists(fs, root) =>
                   /\ out' = AlreadyExistsProject
                   /\ fs' = fs
                   /\ pc' = "done"]_vars

\* a second create_project of q, which the first one made
C2_Witness ==
    /\ pc = "done"
    /\ cmd.name = "create_project"
    /\ cmd.project_name = <<"q">>
    /\ cmd.template = "default"
    /\ ~cmd.git
    /\ out = AlreadyExistsProject
    /\ isfile(fs, join(PR, <<"q", "/", "notes", "/", "notes", ".", "md">>))
    /\ isdir(fs, join(PR, <<"q", "/", "notes", "/", "reference">>))

\* C3 as stated: create_project with a template that is no key of the
\* mapping reports UnknownTemplate, whatever the project name.
C3_AlwaysUnknownTemplate ==
    (pc = "done" /\ cmd.name = "create_project"
       /\ cmd.template \notin DOMAIN project_templates)
    => out = UnknownTemplate

\* C3: create_project with a template that is no key of the mapping creates
\* no file and no directory and starts nothing; it reports UnknownTemplate
\* when the project folder does not exist, and that the project already
\* exists when it does.
C3_UnknownTemplate ==
    [][(Starts("create_project")
          /\ cmd'.template \notin DOMAIN project_templates) =>
         LET root == expanduser(cmd'.directory) \o <<"/">> \o cmd'.project_name
         IN  /\ fs' = fs
             /\ launched' = <<>>
             /\ pc' = "done"
             /\ out' = IF exists(fs, root) THEN AlreadyExistsProject
                       ELSE UnknownTemplate]_vars

C3_Witness ==
    /\ pc = "done"
    /\ cmd.name = "create_project"
    /\ cmd.template = "nonexistent"
    /\ cmd.git
    /\ out = UnknownTemplate
    /\ ~exists(fs, join(expanduser(cmd.directory), cmd.project_name))

\* the calls of fzf_select of the running command, and the last of them
SelectCalls == {i \in 1..Len(launched) :
                  launched[i].prog = "fzf" /\ launched[i].mode = "check_output"}
LastSelect == launched[Max(SelectCalls)]

\* the viewers and editors the dispatch of path started
Viewings(path) == {i \in 1..Len(launched) :
                     /\ launched[i].arg = path
                     /\ launched[i].prog \in {"nvim", "zathura", "ebook-viewer"}}

\* C4 as stated: fzf_select hands its result to the caller: the first
\* candidate that ends with the label when fzf exits with status 0 and a
\* non-empty label, and no selection, without an error, when fzf exits with
\* another status.
C4_SelectReturns ==
    (pc = "done" /\ SelectCalls /= {} /\ LastSelect.waited) =>
        /\ (LastSelect.status = 0 /\ LastSelect.stdout /= None
              /\ first_match(files, LastSelect.stdout) /= 0)
           => returned = files[first_match(files, LastSelect.stdout)]
        /\ LastSelect.status /= 0
           => (returned = None /\ "Traceback" \notin Range(out))

\* C5 as stated: the path chosen through a command is dispatched by its
\* extension: .md to the text editor, .pdf to the document viewer, .epub to
\* the e-book viewer, and anything else is reported as unsupported and
\* starts no process.
C5_DispatchTable ==
    (pc = "done" /\ selected_file /= None) =>
        LET e == ExtOf(selected_file)
            Started(prog) == \E i \in Viewings(selected_file) :
                                launched[i].prog = prog
        IN  /\ e = <<".", "md">> => Started("nvim")
            /\ e = <<".", "pdf">> => Started("zathura")
            /\ e = <<".", "epub">> => Started("ebook-viewer")
            /\ e \notin {<<".", "md">>, <<".", "pdf">>, <<".", "epub">>} =>
                  /\ "Unsupported file type." \in Range(out)
                  /\ Viewings(selected_file) = {}

\* C6: no command starts fzf on an empty list of candidates; a command that
\* finds no candidate starts no process and selects nothing.
C6_NoEmptySelect ==
    /\ \A i \in 1..Len(launched) :
          launched[i].prog = "fzf" => launched[i].stdin /= <<>>
    /\ (cmd.name = "open_file" /\ pc = "done"
          /\ get_file_list(fs, reversed, directory,
                IF cmd.pdf_only THEN {<<".", "pdf">>}
                ELSE {<<".", "pdf">>, <<".", "epub">>, <<".", "md">>}) = <<>>)
       => (launched = <<>> /\ selected_file = None /\ returned = None)

\* open_file has run on a directory without any candidate
C6_Witness ==
    /\ pc = "done"
    /\ cmd.name = "open_file"
    /\ ~cmd.uni
    /\ isdir(fs, directory)
    /\ out = <<"No files found.">>

BlockedOnViewer == pc \in {"viewer", "viewer_direct", "open_file_run"}

\* C7: the dispatch of a .pdf path starts the viewer with Popen and goes on:
\* the tool never waits for it and never has its exit status; the dispatch
\* of a .md path starts the editor with run, and until the editor has exited
\* the command stays in that call.
C7_DetachedAndBlocking ==
    \A i \in 1..Len(launched) :
        LET l == launched[i]
            dispatched == l.prog \in {"nvim", "zathura", "ebook-viewer"}
        IN  /\ (dispatched /\ ExtOf(l.arg) = <<".", "pdf">>) =>
                  /\ l.prog = "zathura"
                  /\ l.mode = "Popen"
                  /\ ~l.waited /\ ~l.checked /\ l.status = -1
                  /\ ~(BlockedOnViewer /\ i = Len(launched))
            /\ (dispatched /\ ExtOf(l.arg) = <<".", "md">>) =>
                  /\ l.prog = "nvim"
                  /\ l.mode = "run"
                  /\ ~l.waited => (BlockedOnViewer /\ i = Len(launched)
                                   /\ target = l.arg)

\* a command has ended and the viewer it started is still alive
C7_Witness ==
    /\ pc = "done"
    /\ \E v \in viewers :
          /\ v.run = runs
          /\ v.prog = "zathura"
          /\ ExtOf(v.path) = <<".", "pdf">>
          /\ \E i \in 1..Len(launched) : launched[i].arg = v.path

\* C8: get_file_list(D, E) is exactly the regular files below D whose
\* extension in lower case is in E, each once; it is empty when D is
\* missing, is no directory or holds no such file.
C8_ScanExact ==
    (cmd.name = "scan" /\ pc = "done") =>
        LET wanted == {p \in DOMAIN fs :
                         /\ isfile(fs, p)
                         /\ startswith(p, directory \o <<"/">>)
                         /\ lower(ExtOf(basename(p))) \in cmd.allowed}
        IN  /\ Range(files) = wanted
            /\ Len(files) = Cardinality(wanted)
            /\ ~isdir(fs, directory) => files = <<>>

\* a scan that returned a file for its upper case extension, among others
C8_Witness ==
    /\ cmd.name = "scan"
    /\ pc = "done"
    /\ join(GD, <<"b", ".", "PDF">>) \in Range(files)
    /\ join(PR, <<"p", "/", "notes", "/", "e", ".", "pdf">>) \in Range(files)
    /\ Len(files) >= 3

\* the folder picked first in search_project
PickedFolder == join(directory, launched[1].stdout)

\* C9 as stated: after the first-level folder is picked, its files and its
\* subfolders are offered; a picked file is dispatched exactly once and no
\* error is reported.
C9_ProjectSearch ==
    (cmd.name = "search_project" /\ SelectCalls /= {}) =>
        /\ \A p \in DOMAIN fs :
              (dirname(p) = PickedFolder /\ p /= PickedFolder)
              => p \in Range(files)
        /\ (pc = "done" /\ selected_file /= None /\ isfile(fs, selected_file)) =>
              /\ ExtOf(selected_file) \in {<<".", "md">>, <<".", "pdf">>}
                 => Cardinality(Viewings(selected_file)) = 1
              /\ "No item selected." \notin Range(out)

\* C10 as stated: open_file reports "No file selected." only when the user
\* cancelled fzf; when the user picked a file the command ends without it.
C10_NoSelectionOnlyOnCancel ==
    (cmd.name = "open_file" /\ pc = "done" /\ SelectCalls /= {}) =>
        /\ "No file selected." \in Range(out) => LastSelect.status /= 0
        /\ LastSelect.status = 0 =>
              /\ selected_file \in Range(files)
              /\ "No file selected." \notin Range(out)

====
